---- MODULE Spec2Model ----
(***************************************************************************)
(* nmappy.py: a threaded TCP port scanner.                                 *)
(*                                                                         *)
(* main() resolves the target and calls threaded_port_scan(), which starts *)
(* min(100, total_ports) daemon threads running threader(), puts every     *)
(* port of the range on a Queue and joins the queue.  Each threader loops  *)
(* get -> scan_port -> task_done.  scan_port creates a socket, calls       *)
(* connect_ex and, for an open port, prints one line, after asking         *)
(* identify_service for the service name when verbose is set.              *)
(***************************************************************************)
EXTENDS Naturals, Integers, Sequences, FiniteSets, Bags, TLC

VARIABLES
    min_port,     \* args.min, the min_port argument of threaded_port_scan
    max_port,     \* args.max, the max_port argument of threaded_port_scan
    net,          \* the target host: what connect_ex does on each port
    reply,        \* the target host: what a connected socket does on a probe
    cpc,          \* position of the main thread
    next_port,    \* loop variable of the put loop (line 170)
    threads,      \* the started threader threads, in start order
    queue,        \* items of the Queue, head first
    enqueued,     \* every port put on the queue, in put order
    dequeued,     \* every port taken off the queue, in get order
    unfinished,   \* Queue.unfinished_tasks
    scan_calls,   \* bag of the ports scan_port was invoked with
    resolved,     \* ports whose connect_ex has returned or raised
    sock,         \* per port: the socket scan_port last created: "open",
                  \* "closed" by close(), or "finalised" (never closed,
                  \* released with scan_port's frame)
    probes_sent,  \* ports a probe payload was written to
    probe_failed, \* ports whose probe send or receive raised
    done,         \* bag of the ports task_done was called for
    stdout        \* bag of printed lines <<kind, port, service>>

vars == <<min_port, max_port, net, reply, cpc, next_port, threads, queue,
          enqueued, dequeued, unfinished,
          scan_calls, resolved, sock, probes_sent, probe_failed, done, stdout>>

(***************************************************************************)
(* Bounds of the exploration.                                              *)
(***************************************************************************)
\* Ranges of up to MaxSpan + 1 ports are explored under every interleaving
\* and every assignment of connect outcomes to their ports.
MaxSpan == 1

\* Lowest ports of the ranges of Spec: below the lowest port number, a port
\* with a probe below the identify threshold, the threshold itself, a port
\* with a probe above the threshold, and the highest port number.
MinPorts == {0, 80, 100, 110, 65535}

(***************************************************************************)
(* Static tables.                                                          *)
(***************************************************************************)
\* SERVICE_PROBES: port -> probe payload (binary payloads written escaped).
SERVICE_PROBES ==
    (20 :> "NOOP\r\n") @@
    (21 :> "HELLO\r\n") @@
    (22 :> "\n") @@
    (23 :> "\r\n") @@
    (25 :> "EHLO example.com\r\n") @@
    (53 :> "\\x00\\x00\\x01\\x00\\x00\\x01\\x00\\x00\\x00\\x00\\x00\\x00\\x07example\\x03com\\x00\\x00\\x01\\x00\\x01") @@
    (80 :> "HEAD / HTTP/1.0\r\n\r\n") @@
    (110 :> "USER test\r\n") @@
    (143 :> "TAG LOGIN test test\r\n") @@
    (443 :> "\\x16\\x03\\x01\\x00\\x01\\x01") @@
    (587 :> "EHLO example.com\r\n") @@
    (3306 :> "\\x00") @@
    (3389 :> "\\x03\\x00\\x00\\x13\\x0e\\xe0\\x00\\x00\\x00\\x00\\x00\\x01\\x00\\x08\\x03\\x00\\x00\\x00") @@
    (5900 :> "RFB 003.003\n") @@
    (8080 :> "HEAD / HTTP/1.0\r\n\r\n")

\* Variant: the table with the "HTTPS" entry first.
SERVICE_KEYWORDS_https_first ==
    << << <<"H","T","T","P","S">>, "HTTPS" >>,
       << <<"H","T","T","P">>, "HTTP" >>,
       << <<"2","2","0">>, "FTP" >>,
       << <<"F","T","P">>, "FTP" >>,
       << <<"S","S","H">>, "SSH" >>,
       << <<"T","e","l","n","e","t">>, "Telnet" >>,
       << <<"L","o","g","i","n">>, "Telnet" >>,
       << <<"P","O","P","3">>, "POP3" >>,
       << <<"I","M","A","P">>, "IMAP" >>,
       << <<"S","M","T","P">>, "SMTP" >>,
       << <<"M","y","S","Q","L">>, "MySQL" >>,
       << <<"R","F","B">>, "VNC" >>,
       << <<"R","D","P">>, "Remote Desktop" >> >>

\* SERVICE_KEYWORDS in insertion order (the iteration order of a dict):
\* <<keyword as a sequence of characters, service>>.
SERVICE_KEYWORDS ==
    << << <<"H","T","T","P">>, "HTTP" >>,
       << <<"2","2","0">>, "FTP" >>,
       << <<"F","T","P">>, "FTP" >>,
       << <<"S","S","H">>, "SSH" >>,
       << <<"T","e","l","n","e","t">>, "Telnet" >>,
       << <<"L","o","g","i","n">>, "Telnet" >>,
       << <<"P","O","P","3">>, "POP3" >>,
       << <<"I","M","A","P">>, "IMAP" >>,
       << <<"S","M","T","P">>, "SMTP" >>,
       << <<"M","y","S","Q","L">>, "MySQL" >>,
       << <<"R","F","B">>, "VNC" >>,
       << <<"R","D","P">>, "Remote Desktop" >>,
       << <<"H","T","T","P","S">>, "HTTPS" >> >>

(***************************************************************************)
(* identify_service                                                        *)
(***************************************************************************)
\* A byte that is not valid UTF-8 on its own.
InvalidByte == "xFF"

\* bytes.decode(errors="ignore"): undecodable bytes are dropped.
Decode(bytes) == SelectSeq(bytes, LAMBDA b : b # InvalidByte)

\* keyword in response: substring test.
Contains(keyword, response) ==
    \E i \in 1..(Len(response) - Len(keyword) + 1) :
        SubSeq(response, i, i + Len(keyword) - 1) = keyword

\* Variant: the keyword that occurs earliest in the response wins.
Classify_by_position(response) ==
    LET hits == {i \in 1..Len(SERVICE_KEYWORDS) :
                    Contains(SERVICE_KEYWORDS[i][1], response)}
        pos(i) == CHOOSE k \in 1..Len(response) :
                    /\ SubSeq(response, k, k + Len(SERVICE_KEYWORDS[i][1]) - 1)
                           = SERVICE_KEYWORDS[i][1]
                    /\ \A m \in 1..(k - 1) :
                          SubSeq(response, m, m + Len(SERVICE_KEYWORDS[i][1]) - 1)
                             # SERVICE_KEYWORDS[i][1]
    IN  IF hits = {} THEN "Unknown"
        ELSE SERVICE_KEYWORDS[CHOOSE i \in hits :
                 \A j \in hits : pos(i) < pos(j) \/ (pos(i) = pos(j) /\ i <= j)][2]

\* The for loop of lines 70-72: the service of the first keyword, in table
\* order, that occurs in the response; "Unknown" when the loop falls through.
Classify(response) ==
    LET hits == {i \in 1..Len(SERVICE_KEYWORDS) :
                    Contains(SERVICE_KEYWORDS[i][1], response)}
    IN  IF hits = {} THEN "Unknown"
        ELSE SERVICE_KEYWORDS[CHOOSE i \in hits : \A j \in hits : i <= j][2]

\* What the socket does during a probe: sendall raises, recv raises, or
\* recv returns bytes.
Responses ==
    { <<>>,
      <<"2","2","0"," ","H","T","T","P">>,
      <<InvalidByte,"S","S",InvalidByte,"H">> }

ProbeIO ==
    {[kind |-> "send_raises", bytes |-> <<>>],
     [kind |-> "recv_raises", bytes |-> <<>>]}
    \cup {[kind |-> "data", bytes |-> r] : r \in Responses}

\* A socket that answers a probe with an empty read.
Silent == [kind |-> "data", bytes |-> <<>>]

\* Variant: no try/except around the probe, so a failed send or receive
\* leaves the function as an exception.
identify_service_propagates(port, io) ==
    IF port \in DOMAIN SERVICE_PROBES
    THEN CASE io.kind = "send_raises" ->
                [ret |-> "Unknown", exc |-> TRUE, sent |-> FALSE, failed |-> TRUE]
           [] io.kind = "recv_raises" ->
                [ret |-> "Unknown", exc |-> TRUE, sent |-> TRUE, failed |-> TRUE]
           [] OTHER ->
                [ret |-> Classify(Decode(io.bytes)), exc |-> FALSE,
                 sent |-> TRUE, failed |-> FALSE]
    ELSE [ret |-> "Unknown", exc |-> FALSE, sent |-> FALSE, failed |-> FALSE]

\* Variant: a port without an entry in SERVICE_PROBES is probed too, with a
\* default payload.
identify_service_default_probe(port, io) ==
    CASE io.kind = "send_raises" ->
           [ret |-> "Unknown", exc |-> FALSE, sent |-> FALSE, failed |-> TRUE]
      [] io.kind = "recv_raises" ->
           [ret |-> "Unknown", exc |-> FALSE, sent |-> TRUE, failed |-> TRUE]
      [] OTHER ->
           [ret |-> Classify(Decode(io.bytes)), exc |-> FALSE,
            sent |-> TRUE, failed |-> FALSE]

\* identify_service(sock, port) on a socket behaving as io.  ret is the
\* returned name, exc whether an exception leaves the function, sent whether
\* the probe was written.
identify_service(port, io) ==
    IF port \in DOMAIN SERVICE_PROBES
    THEN CASE io.kind = "send_raises" ->
                [ret |-> "Unknown", exc |-> FALSE, sent |-> FALSE, failed |-> TRUE]
           [] io.kind = "recv_raises" ->
                [ret |-> "Unknown", exc |-> FALSE, sent |-> TRUE, failed |-> TRUE]
           [] OTHER ->
                [ret |-> Classify(Decode(io.bytes)), exc |-> FALSE,
                 sent |-> TRUE, failed |-> FALSE]
    ELSE [ret |-> "Unknown", exc |-> FALSE, sent |-> FALSE, failed |-> FALSE]

(***************************************************************************)
(* threaded_port_scan: locals                                              *)
(***************************************************************************)
\* line 156
total_ports == max_port - min_port + 1

\* line 159
max_threads == IF total_ports < 100 THEN total_ports ELSE 100

\* Variant: range(min_port, max_port), the last port left out.
PortRange_exclusive == min_port..(max_port - 1)

\* range(min_port, max_port + 1), line 170
PortRange == min_port..max_port

\* Variant: verbose for the first hundred ports of the range.
verbose_flag_first100(worker) == worker < min_port + 100

\* verbose=(worker <= 100), line 139
verbose_flag(worker) == worker <= 100

\* sock.connect_ex((ip, port)): raises OverflowError for a port outside
\* 0..65535, otherwise what the host does on that port.
connect_ex(port) ==
    IF port \notin 0..65535 THEN "raise"
    ELSE IF port \in DOMAIN net THEN net[port] ELSE "closed"

\* Variant: every connect result that is not an exception counts as open.
PortIsOpen_any(result) == TRUE

\* if result == 0, line 94
PortIsOpen(result) == result = "open"

\* What the socket connected to port does when identify_service probes it.
SockIO(port) == IF port \in DOMAIN reply THEN reply[port] ELSE Silent

Line(kind, port, service) == <<kind, port, service>>

Emit(line) == stdout (+) SetToBag({line})

NewThread == [pc |-> "get", port |-> 0, verbose |-> FALSE, service |-> ""]

Started == 1..Len(threads)

\* Threads inside scan_port.
InScanPort == {w \in Started :
                 threads[w].pc \in {"connect", "identify", "recv", "print",
                                    "close", "except"}}

(***************************************************************************)
(* Initial states                                                          *)
(***************************************************************************)
Outcomes == {"open", "closed", "raise"}

Ranges == {<<b, b + d>> : b \in MinPorts, d \in (-1)..MaxSpan}

\* What connect_ex can do on the ports of a range when ip is a host name:
\* a port outside 0..65535 raises OverflowError; on another port the connect
\* succeeds, fails with an error number, or raises socket.gaierror, the
\* lookup of the name failing.
Hosts(lo, hi) ==
    {h \in [lo..hi -> Outcomes] :
        \A p \in lo..hi : p \notin 0..65535 => h[p] = "raise"}

\* What connect_ex can do when ip is an address, as resolve_dns returns it:
\* only a port outside 0..65535 raises.
AddressHosts(lo, hi) ==
    {h \in [lo..hi -> Outcomes] :
        \A p \in lo..hi : p \notin 0..65535 <=> h[p] = "raise"}

\* The two ways into a scan: main, which resolves the target to an address
\* first, and a direct call threaded_port_scan(ip, min_port, max_port) with
\* any ip.
Entry(lo, hi) ==
    \/ /\ cpc = "main"
       /\ net \in AddressHosts(lo, hi)
    \/ /\ cpc = "scan"
       /\ net \in Hosts(lo, hi)

\* What the host's sockets do on a probe, drawn from ios for the open ports
\* that have a probe; the other ports are never written to.
Replies(lo, hi, h, ios) ==
    LET probed == {p \in lo..hi : p \in DOMAIN SERVICE_PROBES /\ h[p] = "open"}
    IN  {[p \in lo..hi |-> IF p \in probed THEN f[p] ELSE Silent] :
            f \in [probed -> ios]}

\* The state before the first step.
Start ==
    /\ scan_calls = EmptyBag
    /\ enqueued = <<>>
    /\ dequeued = <<>>
    /\ sock = [p \in {} |-> "closed"]
    /\ done = EmptyBag
    /\ next_port = 0
    /\ threads = <<>>
    /\ queue = <<>>
    /\ unfinished = 0
    /\ resolved = {}
    /\ probes_sent = {}
    /\ probe_failed = {}
    /\ stdout = EmptyBag

Init ==
    /\ \E r \in Ranges :
          /\ min_port = r[1]
          /\ max_port = r[2]
          /\ Entry(r[1], r[2])
          /\ reply \in Replies(r[1], r[2], net, ProbeIO)
    /\ Start

(***************************************************************************)
(* main and threaded_port_scan                                             *)
(***************************************************************************)
\* Where the main thread goes once the thread-starting loop is over.
AfterLaunch == IF PortRange # {} THEN "put" ELSE "join"

\* What socket.gethostbyname does: returns an address, raises
\* socket.gaierror, or raises another exception (UnicodeError for a name
\* that cannot be IDNA-encoded).
Lookups == {"address", "gaierror", "other_error"}

\* Variant: main without the return of line 215.
Resolve_continues ==
    /\ cpc = "main"
    /\ \E lookup \in Lookups :
          CASE lookup = "address" ->
                 /\ stdout' = Emit(Line("resolved", 0, ""))
                 /\ cpc' = "scan"
            [] lookup = "gaierror" ->
                 /\ stdout' = Emit(Line("unresolved", 0, ""))
                 /\ cpc' = "scan"
            [] OTHER ->
                 /\ stdout' = stdout
                 /\ cpc' = "raised"
    /\ UNCHANGED <<enqueued, dequeued>>
    /\ UNCHANGED <<min_port, max_port, net, reply, next_port, threads, queue, unfinished,
                   scan_calls, resolved, sock, probes_sent, probe_failed, done>>

\* main, lines 211-217, with resolve_dns (lines 119-125): the address is
\* printed and the scan called; on socket.gaierror the error line is printed
\* and main returns; any other exception of the lookup is not caught and
\* leaves main, nothing printed.
Resolve ==
    /\ cpc = "main"
    /\ \E lookup \in Lookups :
          CASE lookup = "address" ->
                 /\ stdout' = Emit(Line("resolved", 0, ""))
                 /\ cpc' = "scan"
            [] lookup = "gaierror" ->
                 /\ stdout' = Emit(Line("unresolved", 0, ""))
                 /\ cpc' = "exit"
            [] OTHER ->
                 /\ stdout' = stdout
                 /\ cpc' = "raised"
    /\ UNCHANGED <<enqueued, dequeued>>
    /\ UNCHANGED <<min_port, max_port, net, reply, next_port, threads, queue, unfinished,
                   scan_calls, resolved, sock, probes_sent, probe_failed, done>>

\* threaded_port_scan, lines 153-162.
ScanInit ==
    /\ cpc = "scan"
    /\ stdout' = Emit(Line("scanning", 0, ""))
    /\ queue' = <<>>
    /\ unfinished' = 0
    /\ next_port' = min_port
    /\ cpc' = IF max_threads > 0 THEN "launch" ELSE AfterLaunch
    /\ UNCHANGED <<enqueued, dequeued>>
    /\ UNCHANGED <<min_port, max_port, net, reply, threads,
                   scan_calls, resolved, sock, probes_sent, probe_failed, done>>


\* Variant: one loop that starts a thread and puts a port in each iteration.
StartThread_and_put ==
    /\ cpc = "launch"
    /\ threads' = Append(threads, NewThread)
    /\ queue' = Append(queue, next_port)
    /\ enqueued' = Append(enqueued, next_port)
    /\ unfinished' = unfinished + 1
    /\ next_port' = next_port + 1
    /\ cpc' = IF Len(threads) + 1 >= max_threads THEN AfterLaunch ELSE "launch"
    /\ UNCHANGED <<min_port, max_port, net, reply, dequeued,
                   scan_calls, resolved, sock, probes_sent, probe_failed, done, stdout>>

\* One iteration of the loop of lines 165-167.
StartThread ==
    /\ cpc = "launch"
    /\ threads' = Append(threads, NewThread)
    /\ cpc' = IF Len(threads) + 1 >= max_threads THEN AfterLaunch ELSE "launch"
    /\ UNCHANGED <<enqueued, dequeued>>
    /\ UNCHANGED <<min_port, max_port, net, reply, next_port, queue, unfinished,
                   scan_calls, resolved, sock, probes_sent, probe_failed, done, stdout>>

\* One iteration of the loop of lines 170-171: queue.put(port).
Put ==
    /\ cpc = "put"
    /\ queue' = Append(queue, next_port)
    /\ unfinished' = unfinished + 1
    /\ next_port' = next_port + 1
    /\ cpc' = IF next_port + 1 \in PortRange THEN "put" ELSE "join"
    /\ enqueued' = Append(enqueued, next_port)
    /\ UNCHANGED dequeued
    /\ UNCHANGED <<min_port, max_port, net, reply, threads,
                   scan_calls, resolved, sock, probes_sent, probe_failed, done, stdout>>

\* Variant: the main thread does not wait for the queue.
Join_nowait ==
    /\ cpc = "join"
    /\ cpc' = "returned"
    /\ UNCHANGED <<enqueued, dequeued>>
    /\ UNCHANGED <<min_port, max_port, net, reply, next_port, threads, queue, unfinished,
                   scan_calls, resolved, sock, probes_sent, probe_failed, done, stdout>>

\* Variant: the main thread waits for the queue to be empty, not for the
\* items to be marked processed.
Join_when_empty ==
    /\ cpc = "join"
    /\ queue = <<>>
    /\ cpc' = "returned"
    /\ UNCHANGED <<enqueued, dequeued>>
    /\ UNCHANGED <<min_port, max_port, net, reply, next_port, threads, queue, unfinished,
                   scan_calls, resolved, sock, probes_sent, probe_failed, done, stdout>>

\* queue.join(), line 174: returns once unfinished_tasks is zero.
Join ==
    /\ cpc = "join"
    /\ unfinished = 0
    /\ cpc' = "returned"
    /\ UNCHANGED <<enqueued, dequeued>>
    /\ UNCHANGED <<min_port, max_port, net, reply, next_port, threads, queue, unfinished,
                   scan_calls, resolved, sock, probes_sent, probe_failed, done, stdout>>

(***************************************************************************)
(* threader and scan_port                                                  *)
(***************************************************************************)
\* Variant: a LifoQueue; get takes the item put last.
Get_lifo(w) ==
    /\ threads[w].pc = "get"
    /\ queue # <<>>
    /\ threads' = [threads EXCEPT ![w].pc = "call", ![w].port = queue[Len(queue)]]
    /\ queue' = SubSeq(queue, 1, Len(queue) - 1)
    /\ dequeued' = Append(dequeued, queue[Len(queue)])
    /\ UNCHANGED enqueued
    /\ UNCHANGED <<min_port, max_port, net, reply, cpc, next_port, unfinished,
                   scan_calls, resolved, sock, probes_sent, probe_failed, done, stdout>>

\* Variant: a non-blocking get; the thread ends when the queue is empty.
Get_nonblocking(w) ==
    /\ threads[w].pc = "get"
    /\ IF queue # <<>>
       THEN /\ threads' = [threads EXCEPT ![w].pc = "call", ![w].port = Head(queue)]
            /\ queue' = Tail(queue)
            /\ dequeued' = Append(dequeued, Head(queue))
       ELSE /\ threads' = [threads EXCEPT ![w].pc = "dead"]
            /\ UNCHANGED <<queue, dequeued>>
    /\ UNCHANGED enqueued
    /\ UNCHANGED <<min_port, max_port, net, reply, cpc, next_port, unfinished,
                   scan_calls, resolved, sock, probes_sent, probe_failed, done, stdout>>

\* worker = queue.get(), line 138: blocks while the queue is empty.
Get(w) ==
    /\ threads[w].pc = "get"
    /\ queue # <<>>
    /\ threads' = [threads EXCEPT ![w].pc = "call", ![w].port = Head(queue)]
    /\ queue' = Tail(queue)
    /\ dequeued' = Append(dequeued, Head(queue))
    /\ UNCHANGED enqueued
    /\ UNCHANGED <<min_port, max_port, net, reply, cpc, next_port, unfinished,
                   scan_calls, resolved, sock, probes_sent, probe_failed, done, stdout>>

\* The call of line 139 and scan_port up to the connect, lines 90-92.
Call(w) ==
    /\ threads[w].pc = "call"
    /\ LET p == threads[w].port IN
          /\ threads' = [threads EXCEPT ![w].pc = "connect",
                                        ![w].verbose = verbose_flag(p)]
          /\ scan_calls' = scan_calls (+) SetToBag({p})
          /\ sock' = (p :> "open") @@ sock
    /\ UNCHANGED <<enqueued, dequeued>>
    /\ UNCHANGED <<min_port, max_port, net, reply, cpc, next_port, queue, unfinished,
                   resolved, probes_sent, probe_failed, done, stdout>>

\* connect_ex and the branches of lines 93-99.
Connect(w) ==
    /\ threads[w].pc = "connect"
    /\ LET p == threads[w].port
           result == connect_ex(p)
       IN  /\ resolved' = resolved \cup {p}
           /\ threads' =
                CASE result = "raise" -> [threads EXCEPT ![w].pc = "except"]
                  [] PortIsOpen(result) ->
                       IF threads[w].verbose
                       THEN [threads EXCEPT ![w].pc = "identify"]
                       ELSE [threads EXCEPT ![w].pc = "print",
                                            ![w].service = "Unknown"]
                  [] OTHER -> [threads EXCEPT ![w].pc = "close"]
    /\ UNCHANGED <<enqueued, dequeued>>
    /\ UNCHANGED <<min_port, max_port, net, reply, cpc, next_port, queue, unfinished,
                   scan_calls, sock, probes_sent, probe_failed, done, stdout>>

\* The call of identify_service, line 97, up to the end of sendall (lines
\* 62-66).  With the probe written the thread goes on to recv; without a
\* probe for the port, or with sendall raising, identify_service is over.
Identify(w) ==
    /\ threads[w].pc = "identify"
    /\ LET p == threads[w].port
           r == identify_service(p, SockIO(p))
       IN  IF r.sent
           THEN /\ threads' = [threads EXCEPT ![w].pc = "recv"]
                /\ probes_sent' = probes_sent \cup {p}
                /\ UNCHANGED probe_failed
           ELSE /\ threads' = IF r.exc
                              THEN [threads EXCEPT ![w].pc = "except"]
                              ELSE [threads EXCEPT ![w].pc = "print",
                                                   ![w].service = r.ret]
                /\ probe_failed' = IF r.failed THEN probe_failed \cup {p}
                                   ELSE probe_failed
                /\ UNCHANGED probes_sent
    /\ UNCHANGED <<enqueued, dequeued>>
    /\ UNCHANGED <<min_port, max_port, net, reply, cpc, next_port, queue, unfinished,
                   scan_calls, resolved, sock, done, stdout>>

\* The rest of identify_service, lines 67-77: recv returns or raises, the
\* response is decoded and classified, and the name is returned.
Recv(w) ==
    /\ threads[w].pc = "recv"
    /\ LET p == threads[w].port
           r == identify_service(p, SockIO(p))
       IN  /\ threads' = IF r.exc
                         THEN [threads EXCEPT ![w].pc = "except"]
                         ELSE [threads EXCEPT ![w].pc = "print",
                                              ![w].service = r.ret]
           /\ probe_failed' = IF r.failed THEN probe_failed \cup {p}
                              ELSE probe_failed
    /\ UNCHANGED <<enqueued, dequeued>>
    /\ UNCHANGED <<min_port, max_port, net, reply, cpc, next_port, queue, unfinished,
                   scan_calls, resolved, sock, probes_sent, done, stdout>>

\* The output of line 101: print(f"Port {port} is open (Service: {service_name})"), line 101.
ReportOpen(w) ==
    /\ threads[w].pc = "print"
    /\ stdout' = Emit(Line("open", threads[w].port, threads[w].service))
    /\ threads' = [threads EXCEPT ![w].pc = "close"]
    /\ UNCHANGED <<enqueued, dequeued>>
    /\ UNCHANGED <<min_port, max_port, net, reply, cpc, next_port, queue, unfinished,
                   scan_calls, resolved, sock, probes_sent, probe_failed, done>>

\* sock.close(), line 104, and the return of scan_port.
Close(w) ==
    /\ threads[w].pc = "close"
    /\ sock' = [sock EXCEPT ![threads[w].port] = "closed"]
    /\ threads' = [threads EXCEPT ![w].pc = "task_done",
                                  ![w].verbose = FALSE, ![w].service = ""]
    /\ UNCHANGED <<enqueued, dequeued>>
    /\ UNCHANGED <<min_port, max_port, net, reply, cpc, next_port, queue, unfinished,
                   scan_calls, resolved, probes_sent, probe_failed, done, stdout>>

\* Variant: scan_port without the try/except: the exception leaves
\* threader and ends the thread.
Except_propagates(w) ==
    /\ threads[w].pc = "except"
    /\ threads' = [threads EXCEPT ![w].pc = "dead"]
    /\ UNCHANGED <<enqueued, dequeued>>
    /\ UNCHANGED <<min_port, max_port, net, reply, cpc, next_port, queue, unfinished,
                   scan_calls, resolved, sock, probes_sent, probe_failed, done, stdout>>

\* The except clause, lines 105-106, and the return of scan_port.  close()
\* is not called on this path; the socket object, which only scan_port's
\* frame refers to, is finalised when the frame is released.
Except(w) ==
    /\ threads[w].pc = "except"
    /\ stdout' = Emit(Line("error", threads[w].port, ""))
    /\ sock' = [sock EXCEPT ![threads[w].port] = "finalised"]
    /\ threads' = [threads EXCEPT ![w].pc = "task_done",
                                  ![w].verbose = FALSE, ![w].service = ""]
    /\ UNCHANGED <<enqueued, dequeued>>
    /\ UNCHANGED <<min_port, max_port, net, reply, cpc, next_port, queue, unfinished,
                   scan_calls, resolved, probes_sent, probe_failed, done>>

\* Variant: threader loops without calling task_done.
TaskDone_omitted(w) ==
    /\ threads[w].pc = "task_done"
    /\ threads' = [threads EXCEPT ![w].pc = "get", ![w].port = 0]
    /\ UNCHANGED <<enqueued, dequeued>>
    /\ UNCHANGED <<min_port, max_port, net, reply, cpc, next_port, queue, unfinished,
                   scan_calls, resolved, sock, probes_sent, probe_failed, done, stdout>>

\* Variant: task_done is called twice for each item.
TaskDone_twice(w) ==
    /\ threads[w].pc = "task_done"
    /\ IF unfinished > 1
       THEN /\ unfinished' = unfinished - 2
            /\ done' = done (+) SetToBag({threads[w].port}) (+) SetToBag({threads[w].port})
            /\ threads' = [threads EXCEPT ![w].pc = "get", ![w].port = 0]
       ELSE IF unfinished = 1
       THEN /\ unfinished' = 0
            /\ done' = done (+) SetToBag({threads[w].port})
            /\ threads' = [threads EXCEPT ![w].pc = "dead"]
       ELSE /\ threads' = [threads EXCEPT ![w].pc = "dead"]
            /\ UNCHANGED <<unfinished, done>>
    /\ UNCHANGED <<enqueued, dequeued>>
    /\ UNCHANGED <<min_port, max_port, net, reply, cpc, next_port, queue,
                   scan_calls, resolved, sock, probes_sent, probe_failed, stdout>>

\* queue.task_done(), line 140, and the jump back to the top of the loop.
\* task_done raises ValueError when no task is unfinished, which ends the
\* thread.
TaskDone(w) ==
    /\ threads[w].pc = "task_done"
    /\ IF unfinished > 0
       THEN /\ unfinished' = unfinished - 1
            /\ done' = done (+) SetToBag({threads[w].port})
            /\ threads' = [threads EXCEPT ![w].pc = "get", ![w].port = 0]
       ELSE /\ threads' = [threads EXCEPT ![w].pc = "dead"]
            /\ UNCHANGED <<unfinished, done>>
    /\ UNCHANGED <<enqueued, dequeued>>
    /\ UNCHANGED <<min_port, max_port, net, reply, cpc, next_port, queue,
                   scan_calls, resolved, sock, probes_sent, probe_failed, stdout>>

Next ==
    \/ Resolve
    \/ ScanInit
    \/ StartThread
    \/ Put
    \/ Join
    \/ \E w \in Started : Get(w)
    \/ \E w \in Started : Call(w)
    \/ \E w \in Started : Connect(w)
    \/ \E w \in Started : Identify(w)
    \/ \E w \in Started : Recv(w)
    \/ \E w \in Started : ReportOpen(w)
    \/ \E w \in Started : Close(w)
    \/ \E w \in Started : Except(w)
    \/ \E w \in Started : TaskDone(w)

Spec == Init /\ [][Next]_vars

(***************************************************************************)
(* Scans of a single port that has a probe, on hosts whose answer to the   *)
(* probe ranges over the concatenations of up to MaxFragments fragments:   *)
(* the keywords of the table, pieces of keywords and an undecodable byte.  *)
(***************************************************************************)
MaxFragments == 2

Fragments ==
    {SERVICE_KEYWORDS[i][1] : i \in 1..Len(SERVICE_KEYWORDS)}
    \cup {<<"S">>, <<"x">>, <<"H","T">>, <<"T","P">>, <<InvalidByte>>}

RECURSIVE Concats(_)
Concats(n) ==
    IF n = 0 THEN {<<>>}
    ELSE LET shorter == Concats(n - 1)
         IN  shorter \cup {f \o t : f \in Fragments, t \in shorter}

ClassifyPorts == {21, 80}

InitClassify ==
    /\ \E p \in ClassifyPorts :
          /\ min_port = p
          /\ max_port = p
          /\ Entry(p, p)
          /\ net[p] # "closed"
          /\ reply \in Replies(p, p, net,
                   {[kind |-> "data", bytes |-> r] : r \in Concats(MaxFragments)})
    /\ Start

SpecClassify == InitClassify /\ [][Next]_vars

\* Every thread that can run eventually runs.
FairSpec == Spec /\ WF_vars(Next)

(***************************************************************************)
(* Properties                                                              *)
(***************************************************************************)
\* The ports of the requested range.
RequestedPorts == min_port..max_port

\* A range the specification calls valid.
ValidRange == min_port <= max_port /\ 1 <= min_port /\ max_port <= 65535

Returned == cpc = "returned"

\* Number of "open" lines printed for port p, whatever the service.
OpenLines(p) ==
    LET ls == {l \in BagToSet(stdout) : l[1] = "open" /\ l[2] = p}
    IN  BagCardinality([l \in ls |-> stdout[l]])

\* C1: for a valid range, when threaded_port_scan has returned, scan_port
\* has been invoked exactly once for each port of the range and for no
\* other port, max_port - min_port + 1 invocations in all.
C1_EachPortScannedOnce ==
    (ValidRange /\ Returned) =>
        /\ scan_calls = [p \in RequestedPorts |-> 1]
        /\ BagCardinality(scan_calls) = max_port - min_port + 1

\* A scan of several ports has returned, every port scanned once.
C1_Witness ==
    /\ ValidRange /\ Returned
    /\ max_port > min_port
    /\ scan_calls = [p \in RequestedPorts |-> 1]
    /\ BagCardinality(scan_calls) = max_port - min_port + 1

\* C2: when threaded_port_scan has returned, the queue is empty and every
\* port of the range has had its connect attempt resolved and task_done
\* called once, and no thread is still between get and task_done.
C2_ReturnOnlyWhenAllProcessed ==
    Returned =>
        /\ queue = <<>>
        /\ \A p \in RequestedPorts : p \in resolved /\ CopiesIn(p, done) = 1
        /\ \A w \in Started : threads[w].pc = "get"

\* A scan of several ports, some open and some not, has returned.
C2_Witness ==
    /\ Returned
    /\ \E p, q \in RequestedPorts :
          /\ connect_ex(p) = "open" /\ connect_ex(q) # "open"
          /\ CopiesIn(p, done) = 1 /\ CopiesIn(q, done) = 1

\* C3: under fair scheduling, a call of threaded_port_scan on a valid range
\* eventually returns, whatever the ports do.
C3_ScanReturns == (ValidRange /\ cpc = "scan") ~> Returned

\* A scan has returned although no port of a range of several ports
\* connected, one of the connects raising.
C3_Witness ==
    /\ ValidRange /\ Returned
    /\ max_port > min_port
    /\ \A p \in RequestedPorts : net[p] # "open"
    /\ \E p \in RequestedPorts : net[p] = "raise"

\* C4: for an invalid range (min_port > max_port, or a bound outside
\* 1..65535) threaded_port_scan fails before starting anything: no thread
\* is started, no port is scanned, and the scan never gets to its loops.
C4_InvalidRangeRejected ==
    ~ValidRange =>
        /\ threads = <<>>
        /\ scan_calls = EmptyBag
        /\ cpc \notin {"launch", "put", "join", "returned"}

\* C5: scan_port closes the socket it created on every exit path: every
\* socket that scan_port has not closed belongs to a thread that is still
\* inside scan_port on that port.
C5_SocketClosedOnReturn ==
    \A p \in DOMAIN sock :
        sock[p] # "closed" => \E w \in InScanPort : threads[w].port = p

\* C6 (ranges of fewer than 100 ports): for min_port <= max_port the number
\* of threads started never exceeds max_port - min_port + 1 and equals it
\* once the starting loop is over; a range of one port gets one thread.
C6_WorkerCountBelowCeiling ==
    LET n == max_port - min_port + 1
    IN  (min_port <= max_port /\ n < 100) =>
            /\ Len(threads) <= n
            /\ cpc \in {"put", "join", "returned"} => Len(threads) = n

\* C7 (ranges of fewer than 100 ports): the number of threads inside
\* scan_port is at most the number of threads started and at most the
\* number of ports of the requested range.
C7_InFlightBelowCeiling ==
    /\ Cardinality(InScanPort) <= Len(threads)
    /\ Cardinality(InScanPort) <= Cardinality(RequestedPorts)

\* C8: a thread inside scan_port has verbose set exactly when its port is
\* at most 100, whatever the range; identify_service is entered and a probe
\* is written only for ports up to 100, and a scan of a range that starts
\* above 100 identifies nothing.
C8_IdentifyOnlyUpTo100 ==
    /\ \A w \in InScanPort : threads[w].verbose <=> (threads[w].port <= 100)
    /\ \A w \in Started :
          threads[w].pc \in {"identify", "recv"} => threads[w].port <= 100
    /\ \A p \in probes_sent \cup probe_failed : p <= 100
    /\ min_port > 100 => probes_sent = {} /\ probe_failed = {}

\* Port 110, which has a probe, was found open and reported without any
\* probe having been written.
C8_Witness ==
    /\ Returned
    /\ 110 \in RequestedPorts
    /\ CopiesIn(Line("open", 110, "Unknown"), stdout) = 1
    /\ probes_sent = {}

\* C9: an "open" line is printed only for a port of the range whose connect
\* succeeded, at most once per port, and when the scan has returned exactly
\* once for each such port.
C9_OpenLinesAreOpenPorts ==
    /\ \A l \in BagToSet(stdout) :
          l[1] = "open" => l[2] \in RequestedPorts /\ l[2] \in 0..65535
                           /\ net[l[2]] = "open"
    /\ \A p \in RequestedPorts : OpenLines(p) <= 1
    /\ Returned =>
          \A p \in RequestedPorts :
              (p \in 0..65535 /\ net[p] = "open") => OpenLines(p) = 1

\* A scan of an open and a closed port has returned with a line for the
\* open port only.
C9_Witness ==
    /\ Returned
    /\ \E p, q \in RequestedPorts :
          /\ net[p] = "open" /\ net[q] = "closed"
          /\ OpenLines(p) = 1 /\ OpenLines(q) = 0

\* C10: a port whose probe send or receive raised gets no error line and no
\* line with another service: its thread is about to print "Unknown", or
\* exactly one line "open, Unknown" has been printed for it.
C10_ProbeFailureStillOpen ==
    \A p \in probe_failed :
        /\ CopiesIn(Line("error", p, ""), stdout) = 0
        /\ \A l \in BagToSet(stdout) :
              (l[1] = "open" /\ l[2] = p) => l[3] = "Unknown"
        /\ \/ \E w \in Started : /\ threads[w].pc = "print"
                                  /\ threads[w].port = p
                                  /\ threads[w].service = "Unknown"
                                  /\ OpenLines(p) = 0
           \/ OpenLines(p) = 1

\* A scan has returned with the line "open, Unknown" for a port whose probe
\* receive raised after the probe was written.
C10_Witness ==
    /\ Returned
    /\ \E p \in probe_failed \cap probes_sent :
          CopiesIn(Line("open", p, "Unknown"), stdout) = 1

\* The threads that hold a port: between get and task_done.
Holding(p) == {w \in Started : threads[w].pc \notin {"get", "dead"} /\ threads[w].port = p}

\* C11: an exception of a connect attempt stays inside that port's check:
\* no thread ever ends; a port whose connect raised is either still in its
\* thread's except clause, or has its error line printed once and is being
\* or has been marked processed; and a scan that has returned has marked
\* every port processed, the raising ones included.
C11_PerPortFailureContained ==
    /\ \A w \in Started : threads[w].pc # "dead"
    /\ \A p \in resolved :
          connect_ex(p) = "raise" =>
              \/ \E w \in Holding(p) : threads[w].pc = "except"
              \/ /\ CopiesIn(Line("error", p, ""), stdout) = 1
                 /\ \/ \E w \in Holding(p) : threads[w].pc = "task_done"
                    \/ CopiesIn(p, done) = 1
    /\ Returned => \A p \in RequestedPorts : CopiesIn(p, done) = 1

\* The connect of the first port of a range raised; its error line is
\* printed and the port marked processed, all threads are back in get, and
\* the second port, taken afterwards, has been reported open.
C11_Witness ==
    /\ max_port = min_port + 1
    /\ connect_ex(min_port) = "raise"
    /\ CopiesIn(Line("error", min_port, ""), stdout) = 1
    /\ CopiesIn(min_port, done) = 1 /\ CopiesIn(max_port, done) = 1
    /\ OpenLines(max_port) = 1
    /\ \A w \in Started : threads[w].pc = "get"
    /\ cpc = "join"

\* The text identify_service matched for port p, when the probe was answered.
ProbeText(p) == Decode(reply[p].bytes)

\* The "open" lines of ports whose probe was written and answered.
AnsweredLines ==
    {l \in BagToSet(stdout) :
        l[1] = "open" /\ l[2] \in probes_sent /\ l[2] \notin probe_failed}

\* C12: the service printed for an answered probe is "Unknown" when no
\* keyword occurs in the text, and otherwise the service of the keyword that
\* occurs in the text and is preceded in the table by no keyword that
\* occurs; a text with both "HTTP" and "220" gives HTTP, in either order.
C12_FirstKeywordInTableOrder ==
    \A l \in AnsweredLines :
        LET text == ProbeText(l[2])
            occurs(i) == Contains(SERVICE_KEYWORDS[i][1], text)
        IN  /\ (\A i \in 1..Len(SERVICE_KEYWORDS) : ~occurs(i)) => l[3] = "Unknown"
            /\ \A i \in 1..Len(SERVICE_KEYWORDS) :
                  (occurs(i) /\ \A j \in 1..(i - 1) : ~occurs(j))
                      => l[3] = SERVICE_KEYWORDS[i][2]
            /\ (Contains(<<"H","T","T","P">>, text) /\ Contains(<<"2","2","0">>, text))
                  => l[3] = "HTTP"

\* HTTP was printed for the answer "220HTTP", where "220" comes first in the
\* text and "HTTP" first in the table.
C12_Witness ==
    \E l \in AnsweredLines :
        /\ reply[l[2]].bytes = <<"2","2","0","H","T","T","P">>
        /\ l[3] = "HTTP"

\* C13: for a port above 100 (verbose false) or without an entry in
\* SERVICE_PROBES, no probe is written or attempted, and the service printed
\* or about to be printed is "Unknown".
C13_NoProbeWithoutCatalogEntry ==
    \A p \in RequestedPorts :
        (p > 100 \/ p \notin DOMAIN SERVICE_PROBES) =>
            /\ p \notin probes_sent
            /\ p \notin probe_failed
            /\ \A l \in BagToSet(stdout) :
                  (l[1] = "open" /\ l[2] = p) => l[3] = "Unknown"
            /\ \A w \in Holding(p) :
                  threads[w].pc = "print" => threads[w].service = "Unknown"

\* Port 100, for which identify_service is called and which has no probe,
\* was reported open with service Unknown and nothing was written to it.
C13_Witness ==
    /\ Returned
    /\ 100 \in RequestedPorts
    /\ CopiesIn(Line("open", 100, "Unknown"), stdout) = 1
    /\ 100 \notin probes_sent \cup probe_failed

\* resolve_dns returned None: it printed its error line.
Unresolved == CopiesIn(Line("unresolved", 0, ""), stdout) > 0

\* C14: when resolve_dns returns None, main has returned without calling
\* threaded_port_scan: no thread is started, no port is put on the queue
\* and scan_port is never invoked.
C14_NoScanWhenUnresolved ==
    Unresolved =>
        /\ cpc = "exit"
        /\ threads = <<>>
        /\ enqueued = <<>> /\ queue = <<>> /\ unfinished = 0
        /\ scan_calls = EmptyBag
        /\ sock = <<>>

\* main has returned on an unresolvable target given a valid range of
\* several ports.
C14_Witness ==
    /\ Unresolved
    /\ cpc = "exit"
    /\ ValidRange /\ max_port > min_port

\* The lines of bag out that are about port p.
PortLines(p, out) ==
    LET ls == {l \in BagToSet(out) : l[1] \in {"open", "error"} /\ l[2] = p}
    IN  [l \in ls |-> out[l]]

\* C15: no step taken after threaded_port_scan has returned prints
\* anything, and no step prints a line about a port that has already been
\* marked processed.
C15_NoOutputAfterReturn ==
    [][ /\ Returned => stdout' = stdout
        /\ \A p \in RequestedPorts :
              CopiesIn(p, done) > 0 => PortLines(p, stdout') = PortLines(p, stdout)
      ]_vars

\* A scan has returned after printing an open line and an error line.
C15_Witness ==
    /\ Returned
    /\ \E p, q \in RequestedPorts :
          /\ OpenLines(p) = 1
          /\ CopiesIn(Line("error", q, ""), stdout) = 1

\* C16: nothing is put on the queue before the thread-starting loop is
\* over; the ports put are min_port, min_port + 1, ... in this order, and
\* once the put loop is over they are exactly the ports of the range.
C16_PutAfterLaunchAscending ==
    LET n == Cardinality(RequestedPorts)
        k == IF n <= 100 THEN n ELSE 100
    IN  /\ cpc \in {"main", "exit", "scan", "launch"} => enqueued = <<>>
        /\ enqueued # <<>> => Len(threads) = k
        /\ \A i \in 1..Len(enqueued) : enqueued[i] = min_port + i - 1
        /\ Len(enqueued) <= n
        /\ cpc \in {"join", "returned"} => Len(enqueued) = n

\* The main thread is in join after putting the ports of a range of
\* several ports, the last one still on the queue.
C16_Witness ==
    /\ cpc = "join"
    /\ Len(enqueued) > 1
    /\ enqueued[Len(enqueued)] = max_port
    /\ queue # <<>>

\* C17: no step ends a thread, before or after the join; a thread in get
\* does not move while the queue is empty, and when it moves it has taken
\* the head of the queue.
C17_WorkersBlockOnEmptyQueue ==
    [][ \A w \in Started :
          /\ threads'[w].pc # "dead"
          /\ (threads[w].pc = "get" /\ queue = <<>>) => threads'[w].pc = "get"
          /\ (threads[w].pc = "get" /\ threads'[w].pc # "get")
                => (queue # <<>> /\ threads'[w].port = Head(queue))
      ]_vars

\* A thread that has finished a port waits in get on an empty queue while
\* the main thread still has ports to put.
C17_Witness ==
    /\ cpc = "put"
    /\ queue = <<>>
    /\ BagCardinality(done) > 0
    /\ \A w \in Started : threads[w].pc = "get"

\* C18: the queue's accounting: unfinished_tasks is the number of puts
\* minus the number of task_done calls and stays within 0..total ports;
\* task_done is called at most once per port, only for a port that was
\* taken and whose connect attempt is resolved; every port taken is either
\* held by exactly one thread or marked processed.
C18_CompletionAccounting ==
    /\ unfinished = Len(enqueued) - BagCardinality(done)
    /\ unfinished >= 0 /\ unfinished <= Cardinality(RequestedPorts)
    /\ BagCardinality(done) <= Len(dequeued)
    /\ Len(dequeued) <= Len(enqueued)
    /\ \A p \in BagToSet(done) :
          /\ CopiesIn(p, done) = 1
          /\ p \in resolved
          /\ Holding(p) = {}
    /\ \A i \in 1..Len(dequeued) :
          \/ CopiesIn(dequeued[i], done) = 1
          \/ Cardinality(Holding(dequeued[i])) = 1

\* Two threads have each taken a port; one port is marked processed, the
\* other not yet.
C18_Witness ==
    /\ unfinished = 1
    /\ Len(enqueued) = 2
    /\ BagCardinality(done) = 1
    /\ \E w \in Started : threads[w].pc = "task_done"

\* The elements of a sequence.
Elements(seq) == {seq[i] : i \in 1..Len(seq)}

\* C19: ports leave the queue in the order they were put: the ports taken
\* are a prefix of the ports put and strictly ascending, and a thread holds
\* a port only when every smaller port of the range has been taken.
C19_FifoOrder ==
    /\ Len(dequeued) <= Len(enqueued)
    /\ dequeued = SubSeq(enqueued, 1, Len(dequeued))
    /\ \A i \in 1..(Len(dequeued) - 1) : dequeued[i] < dequeued[i + 1]
    /\ \A w \in Started :
          threads[w].pc \notin {"get", "dead"} =>
              \A q \in RequestedPorts :
                  q < threads[w].port => q \in Elements(dequeued)

\* The larger port of a range has been reported open while the smaller
\* port, taken first, is still being checked.
C19_Witness ==
    \E p, q \in RequestedPorts :
        /\ p < q
        /\ dequeued = <<p, q>>
        /\ CopiesIn(q, done) = 1
        /\ \E w \in Holding(p) : threads[w].pc = "connect"

\* C20: identify_service never returns "HTTPS": no thread holds it as
\* service name and no line carries it; an answer whose text contains
\* "HTTPS" is reported as HTTP.
C20_HttpsUnreachable ==
    /\ \A w \in Started : threads[w].service # "HTTPS"
    /\ \A l \in BagToSet(stdout) : l[3] # "HTTPS"
    /\ \A l \in AnsweredLines :
          Contains(<<"H","T","T","P","S">>, ProbeText(l[2])) => l[3] = "HTTP"

\* HTTP was printed for an answer that reads "HTTPS" once its undecodable
\* byte is dropped.
C20_Witness ==
    \E l \in AnsweredLines :
        /\ reply[l[2]].bytes = <<InvalidByte,"H","T","T","P","S">>
        /\ l[3] = "HTTP"

====
